---- MODULE Spec2Model ----
(***************************************************************************)
(* Model of the `Demo` ink! contract (contracts/src/demo/lib.rs): an       *)
(* Ownable contract holding a Mapping from contribution id to the approved *)
(* Contribution, with the messages `approve` and `check`, the constructor  *)
(* `new`, and the Ownable messages that the attribute                      *)
(* #[openbrush::implementation(Ownable)] adds to the contract.             *)
(*                                                                         *)
(* Every message runs to completion: one action is one whole call.         *)
(***************************************************************************)
EXTENDS Integers, Sequences, FiniteSets, TLC

\* ------------------------------------------------------------------ bounds
\* Accounts are 1..NumAccounts; contribution ids (u64 in the tests) are
\* 1..NumIds.
NumAccounts == 2
NumIds == 2

AccountId == 1..NumAccounts
ContributionId == 1..NumIds

\* Option<T> is a sequence of at most one element.
None == <<>>
Some(a) == <<a>>
OptionAccountId == {None} \cup {Some(a) : a \in AccountId}

\* ------------------------------------------------------------------- state
VARIABLES
    deployed,       \* TRUE once the constructor has run
    owner,          \* ownable.owner : Option<AccountId>
    contributions,  \* Mapping<ContributionId, Contribution>, a function on the stored keys
    events,         \* the events recorded by the environment, in emission order
    last,           \* the call that made the latest step, with its result
    okApproves,     \* history: <<id, contributor>> of every approve call that returned Ok
    constructor,    \* history: the caller of the constructor, None before it has run
    ownerTried      \* history: the ids of the approve calls made by the owner of the moment

vars == <<deployed, owner, contributions, events, last, okApproves, constructor, ownerTried>>

\* ------------------------------------------------------------------- types
\* types::Contribution, as built in approve.
Contribution_DefaultId(id, contributor) == [id |-> 0, contributor |-> contributor]

Contribution(id, contributor) == [id |-> id, contributor |-> contributor]

\* The event ContributionApproval.
ContributionApproval(id, contributor) == [id |-> id, contributor |-> contributor]

\* The empty Mapping.
EmptyMapping == [k \in {} |-> Contribution(0, 0)]

\* Mapping::get : Option<V>.
Mapping_get(m, k) == IF k \in DOMAIN m THEN Some(m[k]) ELSE None

\* Mapping::insert : the value stored under k is replaced or added.
Mapping_insert_Skip(m, k, v) == m

Mapping_insert_Only(m, k, v) == [x \in {k} |-> v]

Mapping_insert(m, k, v) == [x \in (DOMAIN m) \cup {k} |-> IF x = k THEN v ELSE m[x]]

\* The storage of the contract together with the environment's event record.
Storage(o, c, e) == [owner |-> o, contributions |-> c, events |-> e]

\* Demo::default(): no owner, empty mapping.
Default == Storage(None, EmptyMapping, <<>>)

\* A call and its result; an argument the message does not take is 0.
Call(op, caller, id, account, ret) ==
    [op |-> op, caller |-> caller, id |-> id, contributor |-> account, ret |-> ret]

\* --------------------------------------------------------------- operations
\* Demo::new with Self::env().caller() = caller.
new_NoInit(caller) == Default

new(caller) == [Default EXCEPT !.owner = Some(caller)]

\* The modifier only_owner: the body runs only when the caller is the owner.
only_owner_Any(self, caller) == TRUE

only_owner(self, caller) == self.owner = Some(caller)

\* self.env().emit_event(event): the environment records the event.
emit_event_Drop(self, event) == self

emit_event(self, event) == [self EXCEPT !.events = Append(@, event)]

\* The body of Demo::approve, behind the modifier.
approve_body_Overwrite(self, contribution_id, contributor) ==
    LET contribution == Contribution(contribution_id, contributor)
        inserted == [self EXCEPT
                       !.contributions = Mapping_insert(@, contribution_id, contribution)]
    IN  [ret  |-> "Ok",
         self |-> emit_event(inserted, ContributionApproval(contribution_id, contributor))]

approve_body_EmitAlways(self, contribution_id, contributor) ==
    LET emitted == emit_event(self, ContributionApproval(contribution_id, contributor))
    IN  IF Mapping_get(self.contributions, contribution_id) # None
        THEN [ret |-> "ContributionAlreadyApproved", self |-> emitted]
        ELSE LET contribution == Contribution(contribution_id, contributor)
             IN  [ret  |-> "Ok",
                  self |-> [emitted EXCEPT
                              !.contributions = Mapping_insert(@, contribution_id, contribution)]]

approve_body(self, contribution_id, contributor) ==
    IF Mapping_get(self.contributions, contribution_id) # None
    THEN [ret |-> "ContributionAlreadyApproved", self |-> self]
    ELSE LET contribution == Contribution(contribution_id, contributor)
             inserted == [self EXCEPT
                            !.contributions = Mapping_insert(@, contribution_id, contribution)]
         IN  [ret  |-> "Ok",
              self |-> emit_event(inserted, ContributionApproval(contribution_id, contributor))]

\* Demo::approve.
approve_LookupFirst(self, caller, contribution_id, contributor) ==
    IF Mapping_get(self.contributions, contribution_id) # None
    THEN [ret |-> "ContributionAlreadyApproved", self |-> self]
    ELSE IF ~only_owner(self, caller)
    THEN [ret |-> "CallerIsNotOwner", self |-> self]
    ELSE approve_body(self, contribution_id, contributor)

approve(self, caller, contribution_id, contributor) ==
    IF ~only_owner(self, caller)
    THEN [ret |-> "CallerIsNotOwner", self |-> self]
    ELSE approve_body(self, contribution_id, contributor)

\* Demo::check.
check_AnyCaller(self, caller, contribution_id) ==
    IF Mapping_get(self.contributions, contribution_id) = None
    THEN [ret |-> "NoContributionApprovedYet", self |-> self]
    ELSE [ret |-> "Ok(true)", self |-> self]

check_OrDefault(self, caller, contribution_id) ==
    LET contribution == Mapping_get(self.contributions, contribution_id)
    IN  IF contribution = None
        THEN [ret |-> "Ok(false)", self |-> self]
        ELSE [ret  |-> IF contribution[1].contributor = caller THEN "Ok(true)" ELSE "Ok(false)",
              self |-> self]

check_Take(self, caller, contribution_id) ==
    LET contribution == Mapping_get(self.contributions, contribution_id)
    IN  IF contribution = None
        THEN [ret |-> "NoContributionApprovedYet", self |-> self]
        ELSE [ret  |-> IF contribution[1].contributor = caller THEN "Ok(true)" ELSE "Ok(false)",
              self |-> [self EXCEPT !.contributions =
                          [k \in (DOMAIN @) \ {contribution_id} |-> @[k]]]]

check(self, caller, contribution_id) ==
    LET contribution == Mapping_get(self.contributions, contribution_id)
    IN  IF contribution = None
        THEN [ret |-> "NoContributionApprovedYet", self |-> self]
        ELSE [ret  |-> IF contribution[1].contributor = caller THEN "Ok(true)" ELSE "Ok(false)",
              self |-> self]

\* Ownable::transfer_ownership, a message of the contract through the
\* Ownable implementation.
transfer_ownership(self, caller, new_owner) ==
    IF ~only_owner(self, caller)
    THEN [ret |-> "CallerIsNotOwner", self |-> self]
    ELSE IF new_owner = None
    THEN [ret |-> "NewOwnerIsNotSet", self |-> self]
    ELSE [ret |-> "Ok", self |-> [self EXCEPT !.owner = new_owner]]

\* Ownable::renounce_ownership, likewise.
renounce_ownership(self, caller) ==
    IF ~only_owner(self, caller)
    THEN [ret |-> "CallerIsNotOwner", self |-> self]
    ELSE [ret |-> "Ok", self |-> [self EXCEPT !.owner = None]]

\* ------------------------------------------------------------------ actions
Self == Storage(owner, contributions, events)

Commit(r) ==
    /\ owner' = r.self.owner
    /\ contributions' = r.self.contributions
    /\ events' = r.self.events

Init ==
    /\ deployed = FALSE
    /\ owner = Default.owner
    /\ contributions = Default.contributions
    /\ events = Default.events
    /\ last = Call("none", 0, 0, 0, "none")
    /\ okApproves = {}
    /\ constructor = None
    /\ ownerTried = {}

New ==
    /\ ~deployed
    /\ \E caller \in AccountId :
          /\ Commit([self |-> new(caller)])
          /\ last' = Call("new", caller, 0, 0, "Ok")
          /\ constructor' = Some(caller)
    /\ deployed' = TRUE
    /\ UNCHANGED <<okApproves, ownerTried>>

Approve ==
    /\ deployed
    /\ \E caller \in AccountId, contribution_id \in ContributionId, contributor \in AccountId :
          LET r == approve(Self, caller, contribution_id, contributor)
          IN  /\ Commit(r)
              /\ last' = Call("approve", caller, contribution_id, contributor, r.ret)
              /\ okApproves' = IF r.ret = "Ok"
                               THEN okApproves \cup {<<contribution_id, contributor>>}
                               ELSE okApproves
              /\ ownerTried' = IF owner = Some(caller)
                               THEN ownerTried \cup {contribution_id}
                               ELSE ownerTried
    /\ UNCHANGED <<deployed, constructor>>

Check ==
    /\ deployed
    /\ \E caller \in AccountId, contribution_id \in ContributionId :
          LET r == check(Self, caller, contribution_id)
          IN  /\ Commit(r)
              /\ last' = Call("check", caller, contribution_id, 0, r.ret)
    /\ UNCHANGED <<deployed, okApproves, constructor, ownerTried>>

TransferOwnership ==
    /\ deployed
    /\ \E caller \in AccountId, new_owner \in OptionAccountId :
          LET r == transfer_ownership(Self, caller, new_owner)
          IN  /\ Commit(r)
              /\ last' = Call("transfer_ownership", caller, 0, IF new_owner = None THEN 0 ELSE new_owner[1], r.ret)
    /\ UNCHANGED <<deployed, okApproves, constructor, ownerTried>>

RenounceOwnership ==
    /\ deployed
    /\ \E caller \in AccountId :
          LET r == renounce_ownership(Self, caller)
          IN  /\ Commit(r)
              /\ last' = Call("renounce_ownership", caller, 0, 0, r.ret)
    /\ UNCHANGED <<deployed, okApproves, constructor, ownerTried>>

Next ==
    \/ New
    \/ Approve
    \/ Check
    \/ TransferOwnership
    \/ RenounceOwnership

Spec == Init /\ [][Next]_vars

\* --------------------------------------------------------------- type check
TypeOK ==
    /\ deployed \in BOOLEAN
    /\ owner \in OptionAccountId
    /\ DOMAIN contributions \subseteq ContributionId
    /\ \A k \in DOMAIN contributions : contributions[k].contributor \in AccountId
    /\ Len(events) <= NumIds

\* ------------------------------------------------------------------ claims
\* The record stored under id I, when there is one, is {I, C}.
Stored(m, I, C) == I \in DOMAIN m /\ m[I].id = I /\ m[I].contributor = C

\* C1: an approve call whose caller is not the owner returns CallerIsNotOwner
\* and leaves the contributions mapping as it was.
C1_OwnerGate ==
    [][(last'.op = "approve" /\ owner # Some(last'.caller))
          => (last'.ret = "CallerIsNotOwner" /\ contributions' = contributions)]_vars

\* A non-owner was refused on an id that has no record, with other records stored.
C1_Witness ==
    /\ last.op = "approve"
    /\ last.ret = "CallerIsNotOwner"
    /\ owner # Some(last.caller)
    /\ last.id \notin DOMAIN contributions
    /\ DOMAIN contributions # {}

\* C2: once approve(I, C1) has returned Ok, every approve(I, C2) by the owner
\* returns ContributionAlreadyApproved, changes nothing in the mapping, and the
\* record under I is still {I, C1}.
C2_FirstWriteWins ==
    [][\A p \in okApproves :
          (last'.op = "approve" /\ last'.id = p[1] /\ owner = Some(last'.caller))
             => /\ last'.ret = "ContributionAlreadyApproved"
                /\ contributions' = contributions
                /\ Stored(contributions', p[1], p[2])]_vars

\* The owner approved an already approved id again, for another contributor.
C2_Witness ==
    /\ last.op = "approve"
    /\ last.ret = "ContributionAlreadyApproved"
    /\ \E p \in okApproves : p[1] = last.id /\ p[2] # last.contributor
    /\ Cardinality(okApproves) >= 2

\* C3: check(I) by Q, for an id whose approve(I, C) returned Ok, returns
\* Ok(true) when Q = C and Ok(false) otherwise, whoever Q is.
C3_Attribution ==
    last.op = "check"
       => \A p \in okApproves :
             p[1] = last.id
                => last.ret = (IF last.caller = p[2] THEN "Ok(true)" ELSE "Ok(false)")

\* A contributor that is not the owner got Ok(true).
C3_Witness ==
    /\ last.op = "check"
    /\ last.ret = "Ok(true)"
    /\ owner # Some(last.caller)
    /\ <<last.id, last.caller>> \in okApproves

\* C4: check(I) for an id no approve call has returned Ok for returns
\* NoContributionApprovedYet.
C4_UnknownId ==
    (last.op = "check" /\ \A p \in okApproves : p[1] # last.id)
       => last.ret = "NoContributionApprovedYet"

\* The id checked has no record while another id is approved.
C4_Witness ==
    /\ last.op = "check"
    /\ last.ret = "NoContributionApprovedYet"
    /\ last.id \notin DOMAIN contributions
    /\ okApproves # {}

\* C5: an approve call that returns Ok appends exactly one ContributionApproval
\* event with its id and contributor; a failing approve and every check append
\* nothing.
C5_Emission ==
    [][/\ (last'.op = "approve" /\ last'.ret = "Ok")
            => events' = Append(events, ContributionApproval(last'.id, last'.contributor))
       /\ (last'.op = "approve" /\ last'.ret # "Ok") => events' = events
       /\ last'.op = "check" => events' = events]_vars

\* The second successful approve put its event behind the first one.
C5_Witness ==
    /\ last.op = "approve"
    /\ last.ret = "Ok"
    /\ Len(events) >= 2
    /\ events[Len(events)] = ContributionApproval(last.id, last.contributor)

\* C6: right after construction by P the owner is P, the mapping is empty and
\* no event was emitted.
C6_Construction ==
    last.op = "new"
       => /\ owner = Some(last.caller)
          /\ contributions = EmptyMapping
          /\ events = <<>>

\* The contract was constructed by the last account.
C6_Witness ==
    /\ deployed
    /\ last.op = "new"
    /\ last.caller = NumAccounts

\* C7: approve(I, C) by the owner for an id without a record returns Ok and
\* leaves the record {I, C} under I.
C7_ApproveSuccess ==
    [][(last'.op = "approve" /\ owner = Some(last'.caller)
           /\ last'.id \notin DOMAIN contributions)
          => /\ last'.ret = "Ok"
             /\ Stored(contributions', last'.id, last'.contributor)]_vars

\* The owner credited itself, and was already credited for another id.
C7_Witness ==
    /\ last.op = "approve"
    /\ last.ret = "Ok"
    /\ last.contributor = last.caller
    /\ Stored(contributions, last.id, last.contributor)
    /\ \E k \in DOMAIN contributions :
          k # last.id /\ contributions[k].contributor = last.contributor

\* C8: a record exists under I exactly when an approve call for I has returned
\* Ok, and it is {I, C} for the contributor C of that call.
C8_Existence ==
    /\ \A I \in ContributionId :
          I \in DOMAIN contributions <=> \E p \in okApproves : p[1] = I
    /\ DOMAIN contributions \subseteq ContributionId
    /\ \A p \in okApproves : Stored(contributions, p[1], p[2])

\* One id is approved for the owner itself, and another id was just refused.
C8_Witness ==
    /\ \E p \in okApproves : owner = Some(p[2])
    /\ last.op = "approve"
    /\ last.ret = "CallerIsNotOwner"
    /\ last.id \notin DOMAIN contributions

\* C9: every step keeps every key of the mapping, with the same record.
C9_Monotonic ==
    [][\A k \in DOMAIN contributions :
          k \in DOMAIN contributions' /\ contributions'[k] = contributions[k]]_vars

\* A record was inserted next to an older one.
C9_Witness ==
    /\ last.op = "approve"
    /\ last.ret = "Ok"
    /\ \E k \in DOMAIN contributions : k # last.id

\* C10: a check call leaves the owner, the mapping and the events as they were.
C10_CheckReadOnly ==
    [][last'.op = "check"
          => /\ owner' = owner
             /\ contributions' = contributions
             /\ events' = events]_vars

\* A check answered Ok(false) with records stored and events emitted.
C10_Witness ==
    /\ last.op = "check"
    /\ last.ret = "Ok(false)"
    /\ events # <<>>

\* C11, as claimed: in every state after construction the owner is the
\* principal that constructed the contract.
C11_OwnerIsConstructor ==
    deployed => owner = constructor

\* C11, amended: the owner is the constructor until it changes, and it changes
\* only in a transfer_ownership or renounce_ownership call that the owner of
\* the moment makes and that returns Ok; approve and check never change it.
C11_OwnerChangesOnlyByOwnable ==
    [][/\ (~deployed /\ deployed') => owner' = constructor'
       /\ (deployed /\ owner' # owner)
            => /\ last'.op \in {"transfer_ownership", "renounce_ownership"}
               /\ last'.ret = "Ok"
               /\ owner = Some(last'.caller)]_vars

\* The constructor handed the ownership to another account.
C11_Witness ==
    /\ last.op = "transfer_ownership"
    /\ last.ret = "Ok"
    /\ constructor = Some(last.caller)
    /\ owner = Some(last.contributor)
    /\ owner # constructor

\* C12: the ownership check comes before the lookup: an approve call by a
\* non-owner for an id that has a record returns CallerIsNotOwner, and
\* ContributionAlreadyApproved is returned only to the owner.
C12_GuardBeforeRegistry ==
    [][last'.op = "approve"
          => /\ (owner # Some(last'.caller) /\ last'.id \in DOMAIN contributions)
                   => last'.ret = "CallerIsNotOwner"
             /\ last'.ret = "ContributionAlreadyApproved"
                   => owner = Some(last'.caller)]_vars

\* A non-owner was refused on an id that is already approved.
C12_Witness ==
    /\ last.op = "approve"
    /\ last.ret = "CallerIsNotOwner"
    /\ last.id \in DOMAIN contributions
    /\ owner # Some(last.caller)

\* The positions of the events for id I in the event record.
EventsFor(I) == {i \in 1..Len(events) : events[i].id = I}

\* C13: the events and the records correspond one to one: every record
\* {I, C} has exactly one event, and it is ContributionApproval{I, C}; no event
\* is for an id without a record; there are as many events as records.
C13_EventsMatchRecords ==
    /\ \A I \in DOMAIN contributions :
          /\ Cardinality(EventsFor(I)) = 1
          /\ \A i \in EventsFor(I) : events[i].contributor = contributions[I].contributor
    /\ \A i \in 1..Len(events) : events[i].id \in DOMAIN contributions
    /\ Len(events) = Cardinality(DOMAIN contributions)

\* Two ids are approved, for different contributors, and two events recorded.
C13_Witness ==
    /\ Len(events) = 2
    /\ Cardinality(DOMAIN contributions) = 2
    /\ events[1].id # events[2].id
    /\ events[1].contributor # events[2].contributor

\* C14: with every call run to completion, an approve call returns Ok exactly
\* when it is the first approve call for its id made by the owner of the
\* moment, so at most one approve call per id returns Ok.
C14_AtMostOneOk ==
    [][last'.op = "approve"
          => /\ last'.ret = "Ok"
                   <=> (owner = Some(last'.caller) /\ last'.id \notin ownerTried)
             /\ last'.ret = "Ok" => \A p \in okApproves : p[1] # last'.id]_vars

\* A later owner, not the constructor, approved an approved id again and failed.
C14_Witness ==
    /\ last.op = "approve"
    /\ last.ret = "ContributionAlreadyApproved"
    /\ last.id \in ownerTried
    /\ constructor # Some(last.caller)
    /\ \E p \in okApproves : p[1] = last.id

\* The storage after the step.
SelfNext == Storage(owner', contributions', events')

\* C15: an answer of check is final: when check(I) by Q returns Ok(b) in a
\* state, it returns the same Ok(b) after any step, hence never
\* NoContributionApprovedYet again. (A step that leaves the storage as it
\* was leaves every answer as it was.)
C15_CheckStable ==
    [][\/ SelfNext = Self
       \/ \A Q \in AccountId, I \in ContributionId :
             LET answer == check(Self, Q, I).ret
             IN  answer \in {"Ok(true)", "Ok(false)"}
                    => check(SelfNext, Q, I).ret = answer]_vars

\* check answered Ok(true) after the ownership was given up and with every id
\* approved.
C15_Witness ==
    /\ last.op = "check"
    /\ last.ret = "Ok(true)"
    /\ owner = None
    /\ DOMAIN contributions = ContributionId

\* C16: an approve call never changes the owner; one that returns Ok adds the
\* key of its id, which had no record, and leaves every other record as it was.
C16_ApproveFrame ==
    [][last'.op = "approve"
          => /\ owner' = owner
             /\ last'.ret = "Ok"
                   => /\ last'.id \notin DOMAIN contributions
                      /\ DOMAIN contributions' = DOMAIN contributions \cup {last'.id}
                      /\ \A k \in DOMAIN contributions :
                            contributions'[k] = contributions[k]]_vars

\* The owner approved a second id, for a contributor other than the first one.
C16_Witness ==
    /\ last.op = "approve"
    /\ last.ret = "Ok"
    /\ owner = Some(last.caller)
    /\ \E k \in DOMAIN contributions :
          k # last.id /\ contributions[k].contributor # last.contributor
====
